---------------------------- MODULE Spec2Model ----------------------------
(***************************************************************************)
(* State-machine model of src/client.js: a two-party WebRTC video-chat     *)
(* client.  Each client owns one RTCPeerConnection (the "transport"), one  *)
(* socket.io connection to a signaling relay, an optional local media      *)
(* stream and a handful of DOM controls.                                   *)
(*                                                                         *)
(* JavaScript runs every handler to completion; what interleaves are the   *)
(* tasks: button clicks, socket events, getUserMedia settling, and the     *)
(* transport settling one queued operation (the promise callbacks of the   *)
(* code run as microtasks of that same task, so they are part of the same  *)
(* step).                                                                  *)
(***************************************************************************)
EXTENDS Integers, Sequences, FiniteSets, TLC

\* ----------------------------------------------------------------- bounds
\* join-button activations per client
MaxInits == 2
\* getOffer, getAnswer, getCandidate and user_exit messages the open
\* environment delivers to a client
MaxIn == 2
\* local ICE candidates a transport gathers
MaxCand == 1
\* transport operations the environment lets fail for a reason of its own
MaxFail == 1
\* getCandidate messages delivered to one transport instance in CandSpec
MaxCandIn == 2

Clients == {"A", "B"}
\* the client driven by the open environment in Spec
Solo == {"A"}
Peer(c) == IF c = "A" THEN "B" ELSE "A"

VARIABLES
    localStream,     \* [c] 0 = null, else an index into streams[c]
    streams,         \* [c] every MediaStream getUserMedia returned
    isVideoEnabled, isAudioEnabled,
    ui,              \* [c] disabled flags of the four buttons
    status,          \* [c] connectionStatus class + statusText
    errorMsg,        \* [c] errorMsg.textContent
    remoteVideo,     \* [c] remoteVideo.srcObject # null
    gen,             \* [c] which RTCPeerConnection instance peerConnection names
    pc,              \* [c] the state of that instance
    chain,           \* [c] operations queued on that instance, oldest first
    cancelled,       \* [c] operations whose promise close() left pending for ever
    unhandled,       \* [c] promises that rejected with no handler attached
    sent,            \* [c] everything socket.emit sent, oldest first
    nCand,           \* [c] getCandidate messages received for the current instance
    initPending,     \* [c] init calls suspended at `await getUserMedia`
    inits,           \* [c] join-button activations so far
    sock,            \* [c] state of the socket.io connection
    inCount,         \* [c] messages of the peer the open environment delivered so far
    ruSeen,          \* [c] room_users replies the open environment delivered so far
    fails,           \* [c] operations the environment let fail so far
    room,            \* relay: members of room "1234", in join order
    relayed,         \* relay: [c] how many of sent[c] it has processed
    toClient         \* relay: [c] messages on their way to c, oldest first

vars_media == <<localStream, streams, isVideoEnabled, isAudioEnabled>>
vars_ui    == <<ui, status, errorMsg, remoteVideo>>
vars_pc    == <<gen, pc, chain, cancelled, unhandled>>
vars_io    == <<sent, nCand>>
vars_init  == <<initPending, inits>>
vars_env   == <<sock, inCount, ruSeen, fails>>
vars_relay == <<room, relayed, toClient>>
vars == <<vars_media, vars_ui, vars_pc, vars_io, vars_init, vars_env, vars_relay>>

\* ------------------------------------------------------------ descriptions
\* A session description: who created it, on which of its transport
\* instances, and (for an answer) the instance of the offer it answers.
NoSdp == [type |-> "none", from |-> "-", gen |-> 0, re |-> 0]
OfferSdp(c, g) == [type |-> "offer", from |-> c, gen |-> g, re |-> 0]
AnswerSdp(c, g, offer) == [type |-> "answer", from |-> c, gen |-> g, re |-> offer.gen]

\* ------------------------------------------------ transport (RTCPeerConnection)
\* new RTCPeerConnection(pc_config)
FreshPC ==
    [sigState |-> "stable",
     localCur |-> NoSdp, localPend |-> NoSdp,
     remoteCur |-> NoSdp, remotePend |-> NoSdp,
     tracks |-> 0, handlers |-> FALSE,
     ice |-> "new", cands |-> <<>>, toGather |-> 0]

LocalDesc(p)  == IF p.localPend # NoSdp THEN p.localPend ELSE p.localCur
RemoteDesc(p) == IF p.remotePend # NoSdp THEN p.remotePend ELSE p.remoteCur

CanCreateOffer(p)  == p.sigState \in {"stable", "have-local-offer"}
CanCreateAnswer(p) == p.sigState = "have-remote-offer"

CanSetLocal(p, sdp) ==
    \/ sdp.type = "offer"  /\ p.sigState \in {"stable", "have-local-offer"}
    \/ sdp.type = "answer" /\ p.sigState = "have-remote-offer"

\* the first local description starts ICE gathering
DoSetLocal(p, sdp) ==
    LET g == IF LocalDesc(p) = NoSdp THEN MaxCand ELSE p.toGather IN
    IF sdp.type = "offer"
    THEN [p EXCEPT !.sigState = "have-local-offer", !.localPend = sdp, !.toGather = g]
    ELSE [p EXCEPT !.sigState = "stable",
                   !.localCur = sdp, !.localPend = NoSdp,
                   !.remoteCur = p.remotePend, !.remotePend = NoSdp,
                   !.toGather = g]

\* mutant: a transport that takes an answer in whatever signaling state
CanSetRemote_anyState(p, sdp) ==
    \/ sdp.type = "offer"  /\ p.sigState \in {"stable", "have-local-offer", "have-remote-offer"}
    \/ sdp.type = "answer"

\* an offer is accepted in every open state (over a pending local offer by an
\* implicit rollback); an answer only over a pending local offer
CanSetRemote(p, sdp) ==
    \/ sdp.type = "offer"  /\ p.sigState \in {"stable", "have-local-offer", "have-remote-offer"}
    \/ sdp.type = "answer" /\ p.sigState = "have-local-offer"

DoSetRemote(p, sdp) ==
    IF sdp.type = "offer"
    THEN [p EXCEPT !.sigState = "have-remote-offer", !.remotePend = sdp, !.localPend = NoSdp]
    ELSE [p EXCEPT !.sigState = "stable",
                   !.remoteCur = sdp, !.remotePend = NoSdp,
                   !.localCur = p.localPend, !.localPend = NoSdp]

CanAddIce(p) == RemoteDesc(p) # NoSdp

\* an operation queued on the transport: what was called, its argument, the
\* callback of the code that waits for it, and the instance it was called on
Op(o, sdp, cand, k, g) == [op |-> o, sdp |-> sdp, cand |-> cand, k |-> k, g |-> g]

\* a signaling message as emitted (at: the instance current when it was sent)
Out(t, sdp, cand, g) == [type |-> t, sdp |-> sdp, cand |-> cand, at |-> g]
\* a signaling message as received
In(t, n, sdp, cand) == [type |-> t, n |-> n, sdp |-> sdp, cand |-> cand]

\* ------------------------------------------------------------ UI helpers
updateConnectionStatus(state, text) == [state |-> state, text |-> text]

NotJoinedUI == [join |-> FALSE, leave |-> TRUE, toggleVideo |-> TRUE, toggleAudio |-> TRUE]
JoinedUI    == [join |-> TRUE, leave |-> FALSE, toggleVideo |-> FALSE, toggleAudio |-> FALSE]

\* ------------------------------------------------------------------ Init
Init ==
    /\ localStream = [c \in Clients |-> 0]
    /\ streams = [c \in Clients |-> <<>>]
    /\ isVideoEnabled = [c \in Clients |-> TRUE]
    /\ isAudioEnabled = [c \in Clients |-> TRUE]
    /\ ui = [c \in Clients |-> NotJoinedUI]
    /\ status = [c \in Clients |-> updateConnectionStatus("", "")]
    /\ errorMsg = [c \in Clients |-> ""]
    /\ remoteVideo = [c \in Clients |-> FALSE]
    /\ gen = [c \in Clients |-> 1]
    /\ pc = [c \in Clients |-> FreshPC]
    /\ chain = [c \in Clients |-> <<>>]
    /\ cancelled = [c \in Clients |-> 0]
    /\ unhandled = [c \in Clients |-> 0]
    /\ sent = [c \in Clients |-> <<>>]
    /\ nCand = [c \in Clients |-> 0]
    /\ initPending = [c \in Clients |-> 0]
    /\ inits = [c \in Clients |-> 0]
    /\ sock = [c \in Clients |-> "connecting"]
    /\ inCount = [c \in Clients |-> 0]
    /\ ruSeen = [c \in Clients |-> 0]
    /\ fails = [c \in Clients |-> 0]
    /\ room = <<>>
    /\ relayed = [c \in Clients |-> 0]
    /\ toClient = [c \in Clients |-> <<>>]


\* ------------------------------------------------------- socket lifecycle
\* socket.on('connect')
SocketConnect(c) ==
    /\ sock[c] # "up"
    /\ sock' = [sock EXCEPT ![c] = "up"]
    /\ status' = [status EXCEPT ![c] = updateConnectionStatus("connected", "Connected")]
    /\ UNCHANGED <<vars_media, ui, errorMsg, remoteVideo, vars_pc, vars_io,
                   vars_init, inCount, ruSeen, fails, vars_relay>>

\* socket.on('disconnect')
SocketDisconnect(c) ==
    /\ sock[c] = "up"
    /\ sock' = [sock EXCEPT ![c] = "down"]
    /\ status' = [status EXCEPT ![c] = updateConnectionStatus("disconnected", "Disconnected")]
    /\ UNCHANGED <<vars_media, ui, errorMsg, remoteVideo, vars_pc, vars_io,
                   vars_init, inCount, ruSeen, fails, vars_relay>>

\* socket.on('connect_error')
SocketConnectError(c) ==
    /\ sock[c] # "up"
    /\ sock' = [sock EXCEPT ![c] = "down"]
    /\ status' = [status EXCEPT ![c] = updateConnectionStatus("disconnected", "Connection Failed")]
    /\ errorMsg' = [errorMsg EXCEPT ![c] =
           "Cannot connect to server. Make sure the signaling server is running."]
    /\ UNCHANGED <<vars_media, ui, remoteVideo, vars_pc, vars_io,
                   vars_init, inCount, ruSeen, fails, vars_relay>>

\* ------------------------------------------------------ WebRTC functions
\* createOffer, up to the call of peerConnection.createOffer: the chain after it
createOffer(c) ==
    Append(chain[c], Op("createOffer", NoSdp, 0, "offerThen", gen[c]))

\* createOffer's .then callback: rest is the transport's queue once the
\* operation that just resolved has left it
createOffer_then(c, rest, sdp) ==
    /\ chain' = [chain EXCEPT ![c] = Append(rest, Op("setLocal", sdp, 0, "none", gen[c]))]
    /\ sent' = [sent EXCEPT ![c] = Append(@, Out("offer", sdp, 0, gen[c]))]
    /\ UNCHANGED errorMsg

\* createOffer's .catch callback
createOffer_catch(c, rest) ==
    /\ chain' = [chain EXCEPT ![c] = rest]
    /\ errorMsg' = [errorMsg EXCEPT ![c] = "Failed to create connection offer"]
    /\ UNCHANGED sent

\* createAnswer, up to the call of peerConnection.setRemoteDescription
createAnswer(c, sdp) ==
    Append(chain[c], Op("setRemote", sdp, 0, "answerSetRemote", gen[c]))

\* createAnswer's first .then callback: calls peerConnection.createAnswer
createAnswer_then1(c, rest) ==
    /\ chain' = [chain EXCEPT ![c] =
           Append(rest, Op("createAnswer", NoSdp, 0, "answerThen", gen[c]))]
    /\ UNCHANGED <<sent, errorMsg>>

\* createAnswer's second .then callback
createAnswer_then2(c, rest, answerSdp) ==
    /\ chain' = [chain EXCEPT ![c] = Append(rest, Op("setLocal", answerSdp, 0, "none", gen[c]))]
    /\ sent' = [sent EXCEPT ![c] = Append(@, Out("answer", answerSdp, 0, gen[c]))]
    /\ UNCHANGED errorMsg

\* createAnswer's .catch callback
createAnswer_catch(c, rest) ==
    /\ chain' = [chain EXCEPT ![c] = rest]
    /\ errorMsg' = [errorMsg EXCEPT ![c] = "Failed to establish connection"]
    /\ UNCHANGED sent

\* ------------------------------------------------------ signaling handlers
\* The handlers say nothing about inCount and vars_relay: the action that
\* delivers the message (the open environment, or the relay) does.

\* mutant: room_users without the `data.length > 0` test
on_room_users_noLengthTest(c, n) ==
    /\ chain' = [chain EXCEPT ![c] = createOffer(c)]
    /\ UNCHANGED <<vars_media, vars_ui, gen, pc, cancelled, unhandled, vars_io, vars_init, sock, fails>>

\* socket.on("room_users"): n = data.length
on_room_users(c, n) ==
    /\ chain' = [chain EXCEPT ![c] = IF n > 0 THEN createOffer(c) ELSE @]
    /\ UNCHANGED <<vars_media, vars_ui, gen, pc, cancelled, unhandled, vars_io, vars_init, sock, fails>>

\* socket.on("getOffer")
on_getOffer(c, sdp) ==
    /\ chain' = [chain EXCEPT ![c] = createAnswer(c, sdp)]
    /\ UNCHANGED <<vars_media, vars_ui, gen, pc, cancelled, unhandled, vars_io, vars_init, sock, fails>>

\* socket.on("getAnswer")
on_getAnswer(c, sdp) ==
    /\ chain' = [chain EXCEPT ![c] = Append(@, Op("setRemote", sdp, 0, "none", gen[c]))]
    /\ UNCHANGED <<vars_media, vars_ui, gen, pc, cancelled, unhandled, vars_io, vars_init, sock, fails>>

\* socket.on("getCandidate"): the candidate is identified by its place in the
\* order of arrival at the current transport instance
on_getCandidate(c) ==
    /\ nCand' = [nCand EXCEPT ![c] = @ + 1]
    /\ chain' = [chain EXCEPT ![c] = Append(@, Op("addIce", NoSdp, nCand[c] + 1, "iceLog", gen[c]))]
    /\ UNCHANGED <<vars_media, vars_ui, gen, pc, cancelled, unhandled, sent, vars_init, sock, fails>>

\* mutant: a candidate failure surfaced to the user like the other failures
on_getCandidate_catch_shown(c, rest) ==
    /\ chain' = [chain EXCEPT ![c] = rest]
    /\ errorMsg' = [errorMsg EXCEPT ![c] = "Failed to establish connection"]
    /\ UNCHANGED sent

\* getCandidate's .catch callback: console.error only
on_getCandidate_catch(c, rest) ==
    /\ chain' = [chain EXCEPT ![c] = rest]
    /\ UNCHANGED <<sent, errorMsg>>

\* socket.on("user_exit")
on_user_exit(c) ==
    /\ remoteVideo' = [remoteVideo EXCEPT ![c] = FALSE]
    /\ UNCHANGED <<vars_media, ui, status, errorMsg, vars_pc, vars_io, vars_init, sock, fails>>

\* ------------------------------------------------------------------- init
\* init() up to `await navigator.mediaDevices.getUserMedia`; a click reaches
\* it only while the join button is enabled
init(c) ==
    /\ ~ui[c].join
    /\ inits[c] < MaxInits
    /\ errorMsg' = [errorMsg EXCEPT ![c] = ""]
    /\ initPending' = [initPending EXCEPT ![c] = @ + 1]
    /\ inits' = [inits EXCEPT ![c] = @ + 1]
    /\ UNCHANGED <<vars_media, ui, status, remoteVideo, vars_pc, vars_io, vars_env, vars_relay>>

\* init() after getUserMedia resolved: the rest of the try block
init_resume(c) ==
    /\ initPending[c] > 0
    /\ initPending' = [initPending EXCEPT ![c] = @ - 1]
    /\ streams' = [streams EXCEPT ![c] =
           Append(@, [stopped |-> FALSE, video |-> TRUE, audio |-> TRUE])]
    /\ localStream' = [localStream EXCEPT ![c] = Len(streams[c]) + 1]
    /\ ui' = [ui EXCEPT ![c] = JoinedUI]
    /\ pc' = [pc EXCEPT ![c] = [@ EXCEPT !.tracks = @ + 2, !.handlers = TRUE]]
    /\ sent' = [sent EXCEPT ![c] = Append(@, Out("join", NoSdp, 0, gen[c]))]
    /\ status' = [status EXCEPT ![c] = updateConnectionStatus("connected", "In Room")]
    /\ UNCHANGED <<isVideoEnabled, isAudioEnabled, errorMsg, remoteVideo,
                   gen, chain, cancelled, unhandled, nCand, inits, vars_env, vars_relay>>

ErrorNames == {"NotAllowedError", "NotFoundError", "Error"}

\* the message init's catch block shows for an error of that name
InitErrorText(name) ==
    IF name = "NotAllowedError"
    THEN "Camera/microphone access denied. Please allow permissions and try again."
    ELSE IF name = "NotFoundError"
    THEN "No camera or microphone found. Please connect a device."
    ELSE "Error: message"

\* mutant: the controls are switched (lines 143-146) before the await, so a
\* failed acquisition leaves them switched
init_catch_controlsSwitched(c) ==
    /\ initPending[c] > 0
    /\ initPending' = [initPending EXCEPT ![c] = @ - 1]
    /\ ui' = [ui EXCEPT ![c] = JoinedUI]
    /\ \E name \in ErrorNames :
           errorMsg' = [errorMsg EXCEPT ![c] = InitErrorText(name)]
    /\ UNCHANGED <<vars_media, status, remoteVideo, vars_pc, vars_io, inits,
                   vars_env, vars_relay>>

\* init() after getUserMedia rejected: the catch block
init_catch(c) ==
    /\ initPending[c] > 0
    /\ initPending' = [initPending EXCEPT ![c] = @ - 1]
    /\ \E name \in ErrorNames :
           errorMsg' = [errorMsg EXCEPT ![c] = InitErrorText(name)]
    /\ UNCHANGED <<vars_media, ui, status, remoteVideo, vars_pc, vars_io, inits,
                   vars_env, vars_relay>>

\* -------------------------------------------------------------- leaveRoom
\* mutant: leaveRoom without peerConnection.close(): the operations queued on
\* the old instance stay pending and resolve later
close_notCalled(ch) == ch

\* peerConnection.close(): what is left of the operations queued on the closed
\* instance; their promises never settle
close(ch) == <<>>

\* mutant: leaveRoom that closes the transport but does not replace it
leaveRoom_transportKept(c) ==
    /\ ~ui[c].leave
    /\ streams' = [streams EXCEPT ![c] =
           IF localStream[c] # 0 THEN [@ EXCEPT ![localStream[c]].stopped = TRUE] ELSE @]
    /\ localStream' = [localStream EXCEPT ![c] = 0]
    /\ remoteVideo' = [remoteVideo EXCEPT ![c] = FALSE]
    /\ chain' = [chain EXCEPT ![c] = close(@)]
    /\ cancelled' = [cancelled EXCEPT ![c] = @ + Len(chain[c]) - Len(close(chain[c]))]
    /\ ui' = [ui EXCEPT ![c] = NotJoinedUI]
    /\ isVideoEnabled' = [isVideoEnabled EXCEPT ![c] = TRUE]
    /\ isAudioEnabled' = [isAudioEnabled EXCEPT ![c] = TRUE]
    /\ status' = [status EXCEPT ![c] = updateConnectionStatus("connected", "Connected")]
    /\ errorMsg' = [errorMsg EXCEPT ![c] = ""]
    /\ UNCHANGED <<gen, pc, nCand, unhandled, sent, vars_init, vars_env, vars_relay>>

leaveRoom(c) ==
    /\ ~ui[c].leave
    /\ streams' = [streams EXCEPT ![c] =
           IF localStream[c] # 0 THEN [@ EXCEPT ![localStream[c]].stopped = TRUE] ELSE @]
    /\ localStream' = [localStream EXCEPT ![c] = 0]
    /\ remoteVideo' = [remoteVideo EXCEPT ![c] = FALSE]
    /\ chain' = [chain EXCEPT ![c] = close(@)]
    /\ cancelled' = [cancelled EXCEPT ![c] = @ + Len(chain[c]) - Len(close(chain[c]))]
    /\ gen' = [gen EXCEPT ![c] = @ + 1]
    /\ pc' = [pc EXCEPT ![c] = FreshPC]
    /\ nCand' = [nCand EXCEPT ![c] = 0]
    /\ ui' = [ui EXCEPT ![c] = NotJoinedUI]
    /\ isVideoEnabled' = [isVideoEnabled EXCEPT ![c] = TRUE]
    /\ isAudioEnabled' = [isAudioEnabled EXCEPT ![c] = TRUE]
    /\ status' = [status EXCEPT ![c] = updateConnectionStatus("connected", "Connected")]
    /\ errorMsg' = [errorMsg EXCEPT ![c] = ""]
    /\ UNCHANGED <<unhandled, sent, vars_init, vars_env, vars_relay>>

\* ---------------------------------------------------------------- toggles
\* mutant: toggleVideo reading getAudioTracks()[0]
toggleVideo_audioTrack(c) ==
    /\ IF localStream[c] = 0
       THEN UNCHANGED <<isVideoEnabled, streams>>
       ELSE /\ isVideoEnabled' = [isVideoEnabled EXCEPT ![c] = ~@]
            /\ streams' = [streams EXCEPT ![c][localStream[c]].audio = ~isVideoEnabled[c]]
    /\ UNCHANGED <<localStream, isAudioEnabled, vars_ui, vars_pc, vars_io, vars_init,
                   vars_env, vars_relay>>

\* The handlers guard themselves with localStream; getUserMedia({video, audio})
\* streams carry one track of each kind, so getVideoTracks()[0] exists.
toggleVideo(c) ==
    /\ IF localStream[c] = 0
       THEN UNCHANGED <<isVideoEnabled, streams>>
       ELSE /\ isVideoEnabled' = [isVideoEnabled EXCEPT ![c] = ~@]
            /\ streams' = [streams EXCEPT ![c][localStream[c]].video = ~isVideoEnabled[c]]
    /\ UNCHANGED <<localStream, isAudioEnabled, vars_ui, vars_pc, vars_io, vars_init,
                   vars_env, vars_relay>>

toggleAudio(c) ==
    /\ IF localStream[c] = 0
       THEN UNCHANGED <<isAudioEnabled, streams>>
       ELSE /\ isAudioEnabled' = [isAudioEnabled EXCEPT ![c] = ~@]
            /\ streams' = [streams EXCEPT ![c][localStream[c]].audio = ~isAudioEnabled[c]]
    /\ UNCHANGED <<localStream, isVideoEnabled, vars_ui, vars_pc, vars_io, vars_init,
                   vars_env, vars_relay>>

\* ------------------------------------------------- the transport at work
\* whether the transport, in state p, carries out operation o
Accepts(p, o) ==
    IF o.op = "createOffer" THEN CanCreateOffer(p)
    ELSE IF o.op = "createAnswer" THEN CanCreateAnswer(p)
    ELSE IF o.op = "setLocal" THEN CanSetLocal(p, o.sdp)
    ELSE IF o.op = "setRemote" THEN CanSetRemote(p, o.sdp)
    ELSE CanAddIce(p)

\* the transport's state once it has carried out operation o
Effect(p, o) ==
    IF o.op = "setLocal" THEN DoSetLocal(p, o.sdp)
    ELSE IF o.op = "setRemote" THEN DoSetRemote(p, o.sdp)
    ELSE IF o.op = "addIce" THEN [p EXCEPT !.cands = Append(@, o.cand)]
    ELSE p

\* peerConnection.ontrack: fired when a remote description first brings the
\* peer's tracks, and handled only once init has installed the handler
FiresTrack(p, o) == o.op = "setRemote" /\ RemoteDesc(p) = NoSdp /\ p.handlers

\* The transport settles the oldest operation queued on the current instance
\* (ok = FALSE: it fails for a reason of the environment's, such as a malformed
\* description or candidate) and the callback the code attached to the promise
\* runs.
Settle(c, ok) ==
    /\ chain[c] # <<>>
    /\ ok \/ fails[c] < MaxFail
    /\ LET o    == Head(chain[c])
           rest == Tail(chain[c])
           p    == pc[c]
           good == ok /\ Accepts(p, o)
       IN /\ fails' = [fails EXCEPT ![c] = IF ok THEN @ ELSE @ + 1]
          /\ pc' = [pc EXCEPT ![c] = IF good THEN Effect(p, o) ELSE p]
          /\ remoteVideo' = [remoteVideo EXCEPT ![c] = IF good /\ FiresTrack(p, o) THEN TRUE ELSE @]
          /\ unhandled' = [unhandled EXCEPT ![c] = IF ~good /\ o.k = "none" THEN @ + 1 ELSE @]
          /\ IF o.k = "offerThen"
             THEN IF good THEN createOffer_then(c, rest, OfferSdp(c, o.g))
                          ELSE createOffer_catch(c, rest)
             ELSE IF o.k = "answerSetRemote"
             THEN IF good THEN createAnswer_then1(c, rest)
                          ELSE createAnswer_catch(c, rest)
             ELSE IF o.k = "answerThen"
             THEN IF good THEN createAnswer_then2(c, rest, AnswerSdp(c, o.g, RemoteDesc(p)))
                          ELSE createAnswer_catch(c, rest)
             ELSE IF o.k = "iceLog" /\ ~good
             THEN on_getCandidate_catch(c, rest)
             ELSE /\ chain' = [chain EXCEPT ![c] = rest]
                  /\ UNCHANGED <<sent, errorMsg>>
    /\ UNCHANGED <<vars_media, ui, status, gen, cancelled, nCand, vars_init,
                   sock, inCount, ruSeen, vars_relay>>

\* peerConnection.onicecandidate: the transport gathered a local candidate
IceCandidate(c) ==
    /\ pc[c].toGather > 0
    /\ pc' = [pc EXCEPT ![c].toGather = @ - 1]
    /\ sent' = [sent EXCEPT ![c] =
           IF pc[c].handlers
           THEN Append(@, Out("candidate", NoSdp, MaxCand - pc[c].toGather + 1, gen[c]))
           ELSE @]
    /\ UNCHANGED <<vars_media, vars_ui, gen, chain, cancelled, unhandled, nCand, vars_init,
                   vars_env, vars_relay>>

\* the iceConnectionState changes the transport can go through
IceSteps ==
    {<<"new", "checking">>, <<"checking", "connected">>, <<"checking", "failed">>,
     <<"connected", "disconnected">>, <<"disconnected", "connected">>,
     <<"disconnected", "failed">>}

\* mutant: the `connected` case shows the signaling socket's label
StatusOnIce_socketLabel(st, s) ==
    IF s = "connected" THEN updateConnectionStatus("connected", "Connected")
    ELSE IF s = "disconnected" THEN updateConnectionStatus("disconnected", "Peer Disconnected")
    ELSE IF s = "failed" THEN updateConnectionStatus("disconnected", "Connection Failed")
    ELSE st

\* oniceconnectionstatechange: the status shown for iceConnectionState s
\* (st: the status shown before)
StatusOnIce(st, s) ==
    IF s = "connected" THEN updateConnectionStatus("connected", "Peer Connected")
    ELSE IF s = "disconnected" THEN updateConnectionStatus("disconnected", "Peer Disconnected")
    ELSE IF s = "failed" THEN updateConnectionStatus("disconnected", "Connection Failed")
    ELSE st

\* The transport's iceConnectionState changes to s, once both descriptions
\* are set; the handler runs if init has installed it.
IceChange(c, s) ==
    /\ <<pc[c].ice, s>> \in IceSteps
    /\ LocalDesc(pc[c]) # NoSdp /\ RemoteDesc(pc[c]) # NoSdp
    /\ pc' = [pc EXCEPT ![c].ice = s]
    /\ status' = [status EXCEPT ![c] = IF pc[c].handlers THEN StatusOnIce(@, s) ELSE @]
    /\ errorMsg' = [errorMsg EXCEPT ![c] =
           IF pc[c].handlers /\ s = "failed"
           THEN "Peer connection failed. Try rejoining." ELSE @]
    /\ UNCHANGED <<vars_media, ui, remoteVideo, gen, chain, cancelled, unhandled, vars_io, vars_init,
                   vars_env, vars_relay>>

\* ------------------------------------------------------ open environment
\* The relay and the peer seen from one client.  Once the client has joined the
\* room (no message of the client ever takes it out again: leaveRoom emits
\* nothing), a message of the peer may arrive at any time the socket is
\* connected; room_users arrives as the relay's reply to a join, once per join,
\* with a member list that is empty or not.  An answer is the peer's answer to
\* an offer this client did send.
HasJoined(c) == \E i \in 1..Len(sent[c]) : sent[c][i].type = "join"

EnvUp(c) ==
    /\ sock[c] = "up"
    /\ HasJoined(c)
    /\ UNCHANGED vars_relay

EnvReady(c) ==
    /\ EnvUp(c)
    /\ inCount[c] < MaxIn
    /\ inCount' = [inCount EXCEPT ![c] = @ + 1]
    /\ UNCHANGED ruSeen

OffersSent(c) == {sent[c][i].sdp : i \in {j \in 1..Len(sent[c]) : sent[c][j].type = "offer"}}

EnvRoomUsers(c) ==
    /\ EnvUp(c)
    /\ ruSeen[c] < Cardinality({i \in 1..Len(sent[c]) : sent[c][i].type = "join"})
    /\ ruSeen' = [ruSeen EXCEPT ![c] = @ + 1]
    /\ UNCHANGED inCount
    /\ \E n \in 0..1 : on_room_users(c, n)

EnvGetOffer(c)     == EnvReady(c) /\ on_getOffer(c, OfferSdp(Peer(c), 1))
EnvGetAnswer(c)    == EnvReady(c) /\ \E o \in OffersSent(c) :
                                        on_getAnswer(c, AnswerSdp(Peer(c), 1, o))
EnvGetCandidate(c) == EnvReady(c) /\ on_getCandidate(c)
EnvUserExit(c)     == EnvReady(c) /\ on_user_exit(c)

\* ------------------------------------------------------------------ relay
\* The signaling server: it answers a join with room_users (the members
\* already there) and forwards offer, answer and candidate to the other
\* members of the room.
Members == {room[i] : i \in 1..Len(room)}

Forwarded(m) ==
    IF m.type = "offer" THEN In("getOffer", 0, m.sdp, 0)
    ELSE IF m.type = "answer" THEN In("getAnswer", 0, m.sdp, 0)
    ELSE In("getCandidate", 0, NoSdp, m.cand)

Relay(c) ==
    /\ relayed[c] < Len(sent[c])
    /\ relayed' = [relayed EXCEPT ![c] = @ + 1]
    /\ LET m == sent[c][relayed[c] + 1]
       IN IF m.type = "join"
          THEN /\ room' = IF c \in Members THEN room ELSE Append(room, c)
               /\ toClient' = [toClient EXCEPT ![c] =
                      Append(@, In("room_users", Cardinality(Members \ {c}), NoSdp, 0))]
          ELSE /\ room' = room
               /\ toClient' = [d \in Clients |->
                      IF d # c /\ d \in Members /\ c \in Members
                      THEN Append(toClient[d], Forwarded(m)) ELSE toClient[d]]
    /\ UNCHANGED <<vars_media, vars_ui, vars_pc, vars_io, vars_init, vars_env>>

\* socket.io hands the oldest message on its way to c to the handler of its event
Deliver(c) ==
    /\ sock[c] = "up"
    /\ toClient[c] # <<>>
    /\ toClient' = [toClient EXCEPT ![c] = Tail(@)]
    /\ LET m == Head(toClient[c])
       IN IF m.type = "room_users" THEN on_room_users(c, m.n)
          ELSE IF m.type = "getOffer" THEN on_getOffer(c, m.sdp)
          ELSE IF m.type = "getAnswer" THEN on_getAnswer(c, m.sdp)
          ELSE IF m.type = "getCandidate" THEN on_getCandidate(c)
          ELSE on_user_exit(c)
    /\ UNCHANGED <<inCount, ruSeen, room, relayed>>

\* ---------------------------------------------------------- specifications
\* One client against the open environment.
Next ==
    \E c \in Solo :
        \/ SocketConnect(c)
        \/ init(c)
        \/ init_resume(c)
        \/ init_catch(c)
        \/ leaveRoom(c)
        \/ EnvRoomUsers(c)
        \/ EnvGetOffer(c)
        \/ EnvGetAnswer(c)
        \/ EnvGetCandidate(c)
        \/ EnvUserExit(c)
        \/ \E ok \in BOOLEAN : Settle(c, ok)
        \/ IceCandidate(c)

Spec == Init /\ [][Next]_vars

\* Two clients join once each through the relay; the socket stays up, media
\* acquisition succeeds and the transport fails nothing.
PairNext ==
    \E c \in Clients :
        \/ SocketConnect(c)
        \/ (inits[c] = 0 /\ init(c))
        \/ init_resume(c)
        \/ Relay(c)
        \/ Deliver(c)
        \/ Settle(c, TRUE)
        \/ IceCandidate(c)
        \/ \E s \in {"checking", "connected"} : IceChange(c, s)

\* The event loop runs every task that is ready: the pair never stops while a
\* step is possible.
PairSpec == Init /\ [][PairNext]_vars /\ WF_vars(PairNext)

\* One client with everything the page can do to it: the socket's lifecycle,
\* the toggles and the transport's connectivity changes as well.  The transport
\* fails nothing and no candidate arrives.
UINext ==
    \E c \in Solo :
        \/ SocketConnect(c)
        \/ SocketDisconnect(c)
        \/ SocketConnectError(c)
        \/ (inits[c] = 0 /\ init(c))
        \/ init_resume(c)
        \/ init_catch(c)
        \/ leaveRoom(c)
        \/ toggleVideo(c)
        \/ toggleAudio(c)
        \/ EnvRoomUsers(c)
        \/ EnvGetOffer(c)
        \/ EnvGetAnswer(c)
        \/ EnvUserExit(c)
        \/ Settle(c, TRUE)
        \/ IceCandidate(c)
        \/ \E s \in {"checking", "connected", "disconnected", "failed"} : IceChange(c, s)

UISpec == Init /\ [][UINext]_vars

\* One client that joins once and stays, with the peer's candidates arriving at
\* any time: before, between and after the descriptions.
CandGetCandidate(c) ==
    /\ EnvUp(c)
    /\ nCand[c] < MaxCandIn
    /\ UNCHANGED <<inCount, ruSeen>>
    /\ on_getCandidate(c)

CandNext ==
    \E c \in Solo :
        \/ SocketConnect(c)
        \/ (inits[c] = 0 /\ init(c))
        \/ init_resume(c)
        \/ EnvRoomUsers(c)
        \/ EnvGetOffer(c)
        \/ EnvGetAnswer(c)
        \/ CandGetCandidate(c)
        \/ \E ok \in BOOLEAN : Settle(c, ok)
        \/ IceCandidate(c)
        \/ \E s \in {"checking", "connected"} : IceChange(c, s)

CandSpec == Init /\ [][CandNext]_vars


\* ------------------------------------------------------------ properties
Emitted(c, t) == {i \in 1..Len(sent[c]) : sent[c][i].type = t}
EmittedIn(c, t, g) == {i \in Emitted(c, t) : sent[c][i].at = g}
HasBothDescriptions(c) == LocalDesc(pc[c]) # NoSdp /\ RemoteDesc(pc[c]) # NoSdp

\* the client whose join the relay processed first / second
FirstJoiner  == room[1]
SecondJoiner == room[2]

C1_Safe ==
    \A c \in Clients :
        /\ Cardinality(Emitted(c, "offer")) <= 1
        /\ Cardinality(Emitted(c, "answer")) <= 1
        /\ ~(Emitted(c, "offer") # {} /\ Emitted(c, "answer") # {})
        /\ Emitted(c, "offer") # {} => Len(room) = 2 /\ c = SecondJoiner
        /\ Emitted(c, "answer") # {} => Len(room) = 2 /\ c = FirstJoiner

\* the second joiner has offered, the first has answered, and that answer has
\* reached the offerer and is its remote description
C1_Answered ==
    /\ Len(room) = 2
    /\ Cardinality(Emitted(SecondJoiner, "offer")) = 1
    /\ Cardinality(Emitted(FirstJoiner, "answer")) = 1
    /\ RemoteDesc(pc[SecondJoiner]) = AnswerSdp(FirstJoiner, 1, OfferSdp(SecondJoiner, 1))

\* C1: two clients join one room one after the other; in every interleaving
\* only the second joiner emits an offer (once), only the first joiner emits
\* an answer (once), no client emits both, and the exchange goes on until the
\* answer has reached the offerer.
C1_OneOffererOneAnswerer == [] C1_Safe /\ <> C1_Answered

\* C6: in the two-peer scenario, with every message delivered and every
\* transport promise resolved, both clients end up holding a local and a remote
\* description, and a client whose transport reports `connected` shows the
\* peer-connected status.
C6_BothConnected ==
    /\ <>[] (\A c \in Clients : HasBothDescriptions(c))
    /\ [] (\A c \in Clients :
              pc[c].ice = "connected" =>
                  status[c] = updateConnectionStatus("connected", "Peer Connected"))

C6_Witness ==
    \A c \in Clients :
        /\ HasBothDescriptions(c)
        /\ pc[c].ice = "connected"
        /\ status[c].text = "Peer Connected"

\* whether an addIceCandidate call is still queued on c's transport
IcePending(c) == \E i \in 1..Len(chain[c]) : chain[c][i].op = "addIce"

\* C2: every candidate that reached a joined client while its transport had no
\* remote description is kept and, once the remote description is applied, all
\* of them are applied in the order of arrival, none dropped (the transport
\* itself refusing none).
C2_CandidatesBufferedInOrder ==
    \A c \in Clients :
        (/\ localStream[c] # 0
         /\ fails[c] = 0
         /\ RemoteDesc(pc[c]) # NoSdp
         /\ ~IcePending(c))
        => pc[c].cands = [i \in 1..nCand[c] |-> i]

\* C3: no operation invoked on an earlier transport instance is still waiting
\* to resolve, so no createOffer / createAnswer chain started before leaveRoom
\* runs on after it: every offer and answer sent carries a description created
\* by the instance that was current when it was sent, and the local
\* description of the current instance was created by that instance.
C3_NoStaleChain ==
    \A c \in Clients :
        /\ \A i \in 1..Len(chain[c]) : chain[c][i].g = gen[c]
        /\ \A i \in Emitted(c, "offer") \cup Emitted(c, "answer") :
               sent[c][i].sdp.gen = sent[c][i].at
        /\ LocalDesc(pc[c]) # NoSdp => LocalDesc(pc[c]).gen = gen[c]

\* leaveRoom ran while a chain was pending, and the client has joined again
C3_Witness ==
    \E c \in Clients : cancelled[c] > 0 /\ gen[c] > 1 /\ localStream[c] # 0

\* C4: the remote description of a joined client's transport instance is never
\* an answer to an offer of an earlier instance (an answer that arrives after
\* leaveRoom for an offer sent before it is discarded).
C4_StaleAnswerDiscarded ==
    \A c \in Clients :
        (localStream[c] # 0 /\ RemoteDesc(pc[c]).type = "answer")
            => RemoteDesc(pc[c]).re = gen[c]

\* what a toggle must leave alone: everything but the mirror flag and the
\* local stream's track of that kind
ToggleRest ==
    UNCHANGED <<localStream, vars_ui, vars_pc, vars_io, vars_init, vars_env, vars_relay>>

\* C5: toggleVideo / toggleAudio change nothing but the enabled flag of the
\* local stream's track of that kind and its mirror: no message is emitted, the
\* transport keeps its state, the other kind's flags keep their values, and
\* without a local stream nothing changes at all.
C5_ToggleFrame ==
    [][\A c \in Solo :
         /\ toggleVideo(c) =>
               /\ ToggleRest
               /\ isAudioEnabled' = isAudioEnabled
               /\ localStream[c] = 0 => UNCHANGED vars
               /\ \A i \in 1..Len(streams[c]) :
                     /\ streams'[c][i].audio = streams[c][i].audio
                     /\ streams'[c][i].stopped = streams[c][i].stopped
                     /\ i # localStream[c] => streams'[c][i] = streams[c][i]
               /\ localStream[c] # 0 =>
                     streams'[c][localStream[c]].video = isVideoEnabled'[c]
         /\ toggleAudio(c) =>
               /\ ToggleRest
               /\ isVideoEnabled' = isVideoEnabled
               /\ localStream[c] = 0 => UNCHANGED vars
               /\ \A i \in 1..Len(streams[c]) :
                     /\ streams'[c][i].video = streams[c][i].video
                     /\ streams'[c][i].stopped = streams[c][i].stopped
                     /\ i # localStream[c] => streams'[c][i] = streams[c][i]
               /\ localStream[c] # 0 =>
                     streams'[c][localStream[c]].audio = isAudioEnabled'[c]
      ]_vars

\* video switched off and audio left on, in the middle of a negotiation
C5_Witness ==
    \E c \in Solo :
        /\ localStream[c] # 0
        /\ ~streams[c][localStream[c]].video /\ ~isVideoEnabled[c]
        /\ streams[c][localStream[c]].audio /\ isAudioEnabled[c]
        /\ pc[c].sigState = "have-local-offer"

\* C7: user_exit on a joined client clears the remote media reference, leaves
\* the local stream, its tracks and the transport instance alone, sends
\* nothing, and leaves no negotiation state of the departed peer on the
\* session: the client waits, as before any peer arrived, for a fresh offer.
C7_UserExitResetsSession ==
    [][\A c \in Solo :
         (localStream[c] # 0 /\ EnvUserExit(c)) =>
             /\ ~remoteVideo'[c]
             /\ UNCHANGED <<vars_media, gen, sent>>
             /\ pc'[c].tracks = pc[c].tracks
             /\ pc'[c].sigState = "stable"
             /\ RemoteDesc(pc'[c]) = NoSdp
             /\ LocalDesc(pc'[c]) = NoSdp
      ]_vars

\* C8: within one session generation (one transport instance) a client emits
\* at most one offer.
C8_OneOfferPerGeneration ==
    \A c \in Clients : \A g \in 1..gen[c] :
        Cardinality(EmittedIn(c, "offer", g)) <= 1

\* C9: when getUserMedia fails, init emits nothing, adds no track, installs no
\* handler, leaves every control as it was (a client that was not joined stays
\* not joined, its join button enabled) and shows an error message.
C9_FailedInitChangesNothing ==
    [][\A c \in Solo :
         init_catch(c) =>
             /\ UNCHANGED <<vars_media, ui, status, remoteVideo, vars_pc, vars_io>>
             /\ errorMsg'[c] # ""
             /\ localStream[c] = 0 => (localStream'[c] = 0 /\ ui'[c] = ui[c])
      ]_vars

\* a failed init left the client not joined with the join button enabled
C9_Witness ==
    \E c \in Solo :
        /\ errorMsg[c] = InitErrorText("NotAllowedError")
        /\ initPending[c] = 0 /\ inits[c] = 1
        /\ localStream[c] = 0 /\ ui[c] = NotJoinedUI
        /\ sent[c] = <<>> /\ pc[c] = FreshPC

C11_OneRemoteDescriptionPerGeneration ==
    [][\A c \in Solo :
         (/\ chain[c] # <<>>
          /\ Head(chain[c]).op = "setRemote"
          /\ RemoteDesc(pc[c]) # NoSdp
          /\ \E ok \in BOOLEAN : Settle(c, ok)) =>
             /\ gen'[c] = gen[c]
             /\ pc'[c] = pc[c]
             /\ Head(chain[c]).sdp.type = "answer" => errorMsg'[c] = errorMsg[c]
      ]_vars

\* whether setLocalDescription(sdp) is still queued on c's transport
LocalPending(c, sdp) ==
    \E j \in 1..Len(chain[c]) : chain[c][j].op = "setLocal" /\ chain[c][j].sdp = sdp

\* C12: an offer or answer of the current generation is on the signaling
\* channel only once its application as local description has resolved: the
\* setLocalDescription call for it is not queued on the transport any more.
C12_EmitAfterSetLocal ==
    \A c \in Clients :
        \A i \in EmittedIn(c, "offer", gen[c]) \cup EmittedIn(c, "answer", gen[c]) :
            ~LocalPending(c, sent[c][i].sdp)

\* C13: leaveRoom, from any joined state, leaves the client not joined: no
\* local stream and the stream it had stopped, the old transport closed (nothing
\* queued on it will settle) and replaced by a fresh instance without
\* descriptions or tracks, the join control enabled and the leave and toggle
\* controls disabled, so that init can run again.
C13_LeaveResets ==
    [][\A c \in Solo :
         (localStream[c] # 0 /\ leaveRoom(c)) =>
             /\ localStream'[c] = 0
             /\ streams'[c][localStream[c]].stopped
             /\ gen'[c] = gen[c] + 1
             /\ chain'[c] = <<>>
             /\ pc'[c] = FreshPC
             /\ LocalDesc(pc'[c]) = NoSdp /\ RemoteDesc(pc'[c]) = NoSdp
             /\ pc'[c].tracks = 0
             /\ ui'[c] = NotJoinedUI
             /\ ~ui'[c].join /\ ui'[c].leave /\ ui'[c].toggleVideo /\ ui'[c].toggleAudio
      ]_vars

\* the client left in the middle of a session (descriptions set, tracks
\* added) and a later init has joined again on the fresh instance
C13_Witness ==
    \E c \in Solo :
        /\ gen[c] = 2 /\ localStream[c] = 2
        /\ streams[c][1].stopped /\ ~streams[c][2].stopped
        /\ EmittedIn(c, "answer", 1) # {}
        /\ EmittedIn(c, "join", 2) # {}
        /\ pc[c].tracks = 2 /\ ui[c] = JoinedUI
        /\ ~HasBothDescriptions(c)

\* C14: between two consecutive leaveRoom calls (on one transport instance) a
\* client emits at most one join message and attaches at most one local stream
\* (one audio and one video track) to the transport, however often the join
\* button is activated.
C14_OneJoinPerGeneration ==
    \A c \in Clients :
        /\ \A g \in 1..gen[c] : Cardinality(EmittedIn(c, "join", g)) <= 1
        /\ pc[c].tracks <= 2

\* C20: every stream getUserMedia handed to init is either stopped or the one
\* localStream refers to: no capture runs on without a reference to it.
C20_NoOrphanedCapture ==
    \A c \in Clients :
        \A i \in 1..Len(streams[c]) :
            ~streams[c][i].stopped => localStream[c] = i

\* C15: when the transport's connectivity state changes and the handler is
\* installed, the status shown is connected for `connected`, disconnected for
\* `disconnected`, and for `failed` a status value of its own, different from
\* the one shown for `disconnected`.
C15_StatusMapping ==
    [][\A c \in Solo : \A s \in {"connected", "disconnected", "failed"} :
         (pc[c].handlers /\ IceChange(c, s)) =>
             /\ s = "connected" => status'[c].state = "connected"
             /\ s = "disconnected" => status'[c].state = "disconnected"
             /\ s = "failed" =>
                    status'[c].state \notin {"connected", StatusOnIce(status[c], "disconnected").state}
      ]_vars

\* C16: the status shown agrees with the connectivity state of the current
\* transport: it is the connected status exactly when the transport is
\* connected, whatever socket event, init or leaveRoom has run.
C16_StatusFollowsTransport ==
    \A c \in Clients :
        (status[c].state = "connected") <=> (pc[c].ice = "connected")

\* C17: when addIceCandidate fails (the transport refuses the candidate, or
\* has no remote description yet), nothing but the queue changes: the
\* transport, the status and the error message are as before and nothing is
\* sent; and a candidate the transport can take is applied whatever failed
\* before it.
C17_CandidateFailureOnlyLogged ==
    [][\A c \in Solo :
         (chain[c] # <<>> /\ Head(chain[c]).op = "addIce") =>
             /\ (Settle(c, FALSE) \/ (~CanAddIce(pc[c]) /\ Settle(c, TRUE))) =>
                    /\ pc'[c] = pc[c]
                    /\ chain'[c] = Tail(chain[c])
                    /\ UNCHANGED <<vars_media, vars_ui, gen, sent>>
             /\ (CanAddIce(pc[c]) /\ Settle(c, TRUE)) =>
                    pc'[c].cands = Append(pc[c].cands, Head(chain[c]).cand)
      ]_vars

\* the first candidate failed on a transport that had its descriptions (the
\* failure was the transport's), the second one was applied after it, and the
\* session went on to connect
C17_Witness ==
    \E c \in Solo :
        /\ nCand[c] = 2 /\ pc[c].cands = <<2>>
        /\ fails[c] = 1 /\ unhandled[c] = 0
        /\ HasBothDescriptions(c)
        /\ pc[c].ice = "connected"
        /\ status[c] = updateConnectionStatus("connected", "Peer Connected")
        /\ errorMsg[c] = ""

\* whether the operation at the head of c's queue is rejected in this step:
\* failed by the environment, or refused by the transport in its state
Rejected(c) ==
    \/ Settle(c, FALSE)
    \/ ~Accepts(pc[c], Head(chain[c])) /\ Settle(c, TRUE)

\* C18: a rejected createOffer, createAnswer, setLocalDescription or
\* setRemoteDescription always leaves an error message on the page.
C18_NegotiationFailureShown ==
    [][\A c \in Solo :
         (chain[c] # <<>> /\ Head(chain[c]).op # "addIce" /\ Rejected(c)) =>
             errorMsg'[c] # ""
      ]_vars

\* C19: a client that is not joined (no local stream: before init completes
\* and after leaveRoom) emits nothing but a join, and no description is
\* applied to its transport.
C19_SilentWhenNotJoined ==
    [][\A c \in Solo :
         localStream[c] = 0 =>
             /\ \A i \in (Len(sent[c]) + 1)..Len(sent'[c]) : sent'[c][i].type = "join"
             /\ LocalDesc(pc'[c]) = NoSdp /\ RemoteDesc(pc'[c]) = NoSdp
      ]_vars

=============================================================================
